---- MODULE Spec2Model ----
(***************************************************************************)
(* Model of timers/main.c: the Xbox timer survey.  main() initialises the  *)
(* display, captures a baseline of three counters (performance counter,    *)
(* kernel tick counter, time stamp counter), then samples them once per    *)
(* SAMPLE_STEP ms until SAMPLE_END ms, showing the elapsed time according   *)
(* to each, and finally tears the display down and reboots.                *)
(*                                                                         *)
(* The C program computes with 32-bit and 64-bit unsigned integers.  TLC   *)
(* integers are 32-bit signed, so an unsigned value is a little-endian     *)
(* sequence of base-256 limbs without leading zero limbs (<<>> is 0), and  *)
(* the widths of the C types are applied explicitly (Low32, High32,        *)
(* Sub64, Add32).                                                          *)
(***************************************************************************)
EXTENDS Integers, Sequences, FiniteSets, TLC

(***************************************************************************)
(* Unsigned arithmetic on limb sequences                                   *)
(***************************************************************************)
Base == 256

RECURSIVE Norm(_)
Norm(s) ==
  IF s = <<>> THEN s
  ELSE IF s[Len(s)] = 0 THEN Norm(SubSeq(s, 1, Len(s) - 1)) ELSE s

RECURSIVE N(_)
N(i) == IF i = 0 THEN <<>> ELSE <<i % Base>> \o N(i \div Base)

RECURSIVE ToInt(_)
ToInt(a) == IF a = <<>> THEN 0 ELSE a[1] + Base * ToInt(Tail(a))

Fits(a) == Len(a) <= 3

Limb(a, i) == IF i <= Len(a) THEN a[i] ELSE 0

RECURSIVE AddC(_, _, _, _)
AddC(a, b, i, c) ==
  IF i > Len(a) /\ i > Len(b)
  THEN IF c = 0 THEN <<>> ELSE <<c>>
  ELSE LET s == Limb(a, i) + Limb(b, i) + c
       IN  <<s % Base>> \o AddC(a, b, i + 1, s \div Base)

Add(a, b) == AddC(a, b, 1, 0)

RECURSIVE SubB(_, _, _, _)
SubB(a, b, i, w) ==
  IF i > Len(a) THEN <<>>
  ELSE LET d == a[i] - Limb(b, i) - w
       IN  IF d < 0 THEN <<d + Base>> \o SubB(a, b, i + 1, 1)
           ELSE <<d>> \o SubB(a, b, i + 1, 0)

\* a - b for a >= b
Sub(a, b) == Norm(SubB(a, b, 1, 0))

RECURSIVE LtFrom(_, _, _)
LtFrom(a, b, i) ==
  IF i = 0 THEN FALSE
  ELSE IF a[i] # b[i] THEN a[i] < b[i]
  ELSE LtFrom(a, b, i - 1)

Lt(a, b) == IF Len(a) # Len(b) THEN Len(a) < Len(b) ELSE LtFrom(a, b, Len(a))

Leq(a, b) == ~Lt(b, a)

RECURSIVE MulC(_, _, _, _)
MulC(a, m, i, c) ==
  IF i > Len(a) THEN N(c)
  ELSE LET p == a[i] * m + c
       IN  <<p % Base>> \o MulC(a, m, i + 1, p \div Base)

\* a * m for a TLC integer 0 <= m < 2^22
MulSmall(a, m) == IF m = 0 THEN <<>> ELSE MulC(a, m, 1, 0)

\* a * 256 + d
ShiftLimb(a, d) == IF a = <<>> /\ d = 0 THEN <<>> ELSE <<d>> \o a

RECURSIVE Mul(_, _)
Mul(a, b) ==
  IF b = <<>> THEN <<>>
  ELSE Add(MulSmall(a, b[1]), ShiftLimb(Mul(a, Tail(b)), 0))

RECURSIVE Digit(_, _, _, _)
Digit(r, b, lo, hi) ==
  IF lo = hi THEN lo
  ELSE LET mid == (lo + hi + 1) \div 2
       IN  IF Leq(MulSmall(b, mid), r) THEN Digit(r, b, mid, hi)
           ELSE Digit(r, b, lo, mid - 1)

\* the largest d with b * d <= r, for r < 256 * b
DigitOf(r, b) ==
  IF Lt(r, b) THEN 0
  ELSE IF Fits(r) THEN ToInt(r) \div ToInt(b)
  ELSE Digit(r, b, 1, Base - 1)

RECURSIVE DivStep(_, _, _, _, _)
DivStep(a, b, i, q, r) ==
  IF i = 0 THEN <<q, r>>
  ELSE LET r1 == ShiftLimb(r, a[i])
           d  == DigitOf(r1, b)
       IN  DivStep(a, b, i - 1, ShiftLimb(q, d), Sub(r1, MulSmall(b, d)))

\* <<quotient, remainder>> of a by b # 0: long division, most significant limb first
DivMod(a, b) == DivStep(a, b, Len(a), <<>>, <<>>)

Zero == <<>>
Pow2_32 == <<0, 0, 0, 0, 1>>
Pow2_64 == <<0, 0, 0, 0, 0, 0, 0, 0, 1>>
Max32 == <<255, 255, 255, 255>>
Max64 == <<255, 255, 255, 255, 255, 255, 255, 255>>

\* conversion to a 32-bit unsigned: (unsigned) x, (ULONG) x
Low32(a) == Norm(SubSeq(a, 1, IF Len(a) < 4 THEN Len(a) ELSE 4))

\* x >> 32 of a 64-bit unsigned
High32(a) == IF Len(a) <= 4 THEN <<>> ELSE SubSeq(a, 5, Len(a))

Low64(a) == Norm(SubSeq(a, 1, IF Len(a) < 8 THEN Len(a) ELSE 8))

\* a - b on unsigned long long: modulo 2^64
Sub64(a, b) == IF Leq(b, a) THEN Sub(a, b) ELSE Sub(Add(a, Pow2_64), b)

\* a + b on unsigned: modulo 2^32
Add32(a, b) == Low32(Add(a, b))

(***************************************************************************)
(* Program constants and model bounds                                      *)
(***************************************************************************)
SAMPLE_STEP == 1000
SAMPLE_END == 315000
\* XSleep(2000) on the pb_init failure path
InitFailSleepMs == 2000
\* unsigned freq = 733333 in tsc_to_ms: cycles per millisecond
freq == 733333
\* the performance counter runs at 3.375 MHz
PerformanceFrequency == 3375000
\* the time stamp counter advances at the processor clock, per millisecond
CpuCyclesPerMs == 733333

\* time is counted in units of 1/UnitsPerMs milliseconds
UnitsPerMs == 2
\* the units of time that may pass between the individual counter reads of a run
MaxSkew == 1
\* the program starts at most this many units after the counters were at 0
StartMax == 1

(***************************************************************************)
(* The platform's three counters as functions of the time t (in units)     *)
(* since they were 0, each advancing at its nominal rate                   *)
(***************************************************************************)
KeQueryPerformanceCounter(t) ==
  Low64(DivMod(MulSmall(t, PerformanceFrequency), N(1000 * UnitsPerMs))[1])

KeQueryPerformanceFrequency == N(PerformanceFrequency)

\* KeTickCount is a 32-bit kernel variable incremented every millisecond
KeTickCount(t) == Low32(DivMod(t, N(UnitsPerMs))[1])

TimeStampCounter(t) ==
  Low64(DivMod(MulSmall(t, CpuCyclesPerMs), N(UnitsPerMs))[1])

\* rdtsc(): the counter's two 32-bit halves, combined as (hi << 32) | lo
rdtsc(t) ==
  LET hi == High32(TimeStampCounter(t))
      lo == Low32(TimeStampCounter(t))
  IN  Add(Mul(hi, Pow2_32), lo)

(***************************************************************************)
(* divl and tsc_to_ms                                                      *)
(***************************************************************************)
\* the divl instruction raises a divide error when the divisor is 0 or the
\* quotient of edx:eax by it does not fit in 32 bits (edx >= divisor)
divl_fault(dividend_, divisor_) ==
  divisor_ = Zero \/ Leq(divisor_, High32(dividend_))

\* mutant: a 32-bit division of the low half alone
divl_quotient_lo_only(dividend_, divisor_) == DivMod(Low32(dividend_), divisor_)[1]

\* the quotient the instruction leaves in eax
divl_quotient(dividend_, divisor_) ==
  LET hi == High32(dividend_)
      lo == Low32(dividend_)
  IN  DivMod(Add(Mul(hi, Pow2_32), lo), divisor_)[1]

\* _remainder is never assigned (the asm statement has the quotient as its only
\* output): the value stored through the pointer is whatever the local holds
UninitializedWords(dividend_, divisor_) ==
  { Zero, N(1), Max32, divisor_, Low32(dividend_), High32(dividend_),
    DivMod(dividend_, divisor_)[2] }

tsc_to_ms_fault(tsc) == divl_fault(tsc, N(freq))

\* mutant: the frequency in MHz instead of cycles per millisecond
tsc_to_ms_mhz(tsc) == divl_quotient(tsc, N(733))

tsc_to_ms(tsc) == divl_quotient(tsc, N(freq))

(***************************************************************************)
(* State                                                                   *)
(***************************************************************************)
VARIABLES
  pc,            \* position of main(), or of the function under call
  now,           \* time in units since the counters were 0
  skew,          \* units of time that passed between counter reads so far
  sample_step,   \* SAMPLE_STEP
  sample_end,    \* SAMPLE_END
  perf_start, perf_cur, ticks_start, ticks_cur, tsc_start, tsc_cur,
  perf_freq, perf_delta, ticks_delta, tsc_delta, elapsed,
  tStart,        \* the instants of the baseline reads made so far
  tCur,          \* the instants of the current reads of this iteration
  pb_status,     \* "none", "ok" (pb_init returned 0) or "failed"
  screen,        \* the three numbers on the debug screen, <<>> when blank
  iterations,    \* displayed iterations
  sleeps,        \* XSleep calls that have returned
  last_sleep,    \* the duration of the last XSleep, in ms
  killCalls,     \* pb_kill calls
  reboots,       \* XReboot calls
  dividend, divisor, want_rem, quotient, rem_out,   \* a call of divl
  cyc, ms        \* arguments and results of calls of tsc_to_ms

readings == <<perf_start, perf_cur, ticks_start, ticks_cur, tsc_start, tsc_cur, perf_freq>>
deltas == <<perf_delta, ticks_delta, tsc_delta>>
config == <<sample_step, sample_end>>
instants == <<tStart, tCur>>
platform == <<pb_status, screen, sleeps, last_sleep, killCalls, reboots>>
callvars == <<dividend, divisor, want_rem, quotient, rem_out, cyc, ms>>
vars == <<pc, now, skew, config, readings, deltas, elapsed, iterations, instants,
          platform, callvars>>

\* the locals of main() hold no meaningful value before their first assignment
\* and none is read before it; they are shown as 0
LocalsUnset ==
  /\ perf_start = Zero /\ perf_cur = Zero /\ ticks_start = Zero
  /\ ticks_cur = Zero /\ tsc_start = Zero /\ tsc_cur = Zero
  /\ perf_freq = Zero /\ perf_delta = Zero /\ ticks_delta = Zero
  /\ tsc_delta = Zero /\ elapsed = Zero

NothingDoneYet ==
  /\ pb_status = "none" /\ screen = <<>> /\ iterations = 0 /\ sleeps = 0
  /\ last_sleep = Zero /\ killCalls = 0 /\ reboots = 0
  /\ tStart = <<>> /\ tCur = <<>> /\ skew = 0

NoCall ==
  /\ dividend = Zero /\ divisor = Zero /\ want_rem = FALSE
  /\ quotient = Zero /\ rem_out = Zero /\ cyc = <<>> /\ ms = <<>>

\* main() is entered, with the constants of the source
Init ==
  /\ pc = "pb_init"
  /\ now \in {N(i) : i \in 0..StartMax}
  /\ sample_step = N(SAMPLE_STEP)
  /\ sample_end = N(SAMPLE_END)
  /\ LocalsUnset /\ NothingDoneYet /\ NoCall

(***************************************************************************)
(* main()                                                                  *)
(***************************************************************************)
\* XSleep(d): the caller resumes d milliseconds later
XSleep(d) ==
  /\ now' = Add(now, MulSmall(d, UnitsPerMs))
  /\ sleeps' = sleeps + 1
  /\ last_sleep' = d

\* if (pb_init()): a nonzero result is a failure
PbInit ==
  /\ pc = "pb_init"
  /\ \E result \in {0, 1} :
       IF result # 0
       THEN pb_status' = "failed" /\ pc' = "fail_sleep"
       ELSE pb_status' = "ok" /\ pc' = "show"
  /\ UNCHANGED <<now, skew, config, readings, deltas, elapsed, iterations,
                 instants, screen, sleeps, last_sleep, killCalls, reboots, callvars>>

FailSleep ==
  /\ pc = "fail_sleep"
  /\ XSleep(N(InitFailSleepMs))
  /\ pc' = "fail_reboot"
  /\ UNCHANGED <<skew, config, readings, deltas, elapsed, iterations, instants,
                 pb_status, screen, killCalls, reboots, callvars>>

\* mutant: the failure path continues into the program
FailReboot_returns ==
  /\ pc = "fail_reboot"
  /\ reboots' = reboots + 1
  /\ pc' = "show"
  /\ UNCHANGED <<now, skew, config, readings, deltas, elapsed, iterations,
                 instants, pb_status, screen, sleeps, last_sleep, killCalls, callvars>>

\* XReboot() does not return
FailReboot ==
  /\ pc = "fail_reboot"
  /\ reboots' = reboots + 1
  /\ pc' = "halted"
  /\ UNCHANGED <<now, skew, config, readings, deltas, elapsed, iterations,
                 instants, pb_status, screen, sleeps, last_sleep, killCalls, callvars>>

ShowDebugScreen ==
  /\ pc = "show"
  /\ pc' = "perf_start"
  /\ UNCHANGED <<now, skew, config, readings, deltas, elapsed, iterations,
                 instants, platform, callvars>>

ReadPerfStart ==
  /\ pc = "perf_start"
  /\ perf_start' = KeQueryPerformanceCounter(now)
  /\ tStart' = <<now>>
  /\ pc' = "perf_freq"
  /\ UNCHANGED <<now, skew, config, perf_cur, ticks_start, ticks_cur, tsc_start,
                 tsc_cur, perf_freq, deltas, elapsed, iterations, tCur, platform,
                 callvars>>

\* perf_freq = (unsigned) KeQueryPerformanceFrequency() / 1000
QueryPerfFreq ==
  /\ pc = "perf_freq"
  /\ perf_freq' = DivMod(Low32(KeQueryPerformanceFrequency), N(1000))[1]
  /\ pc' = "ticks_start"
  /\ UNCHANGED <<now, skew, config, perf_start, perf_cur, ticks_start, ticks_cur,
                 tsc_start, tsc_cur, deltas, elapsed, iterations, instants,
                 platform, callvars>>

ReadTicksStart ==
  /\ pc = "ticks_start"
  /\ ticks_start' = KeTickCount(now)
  /\ tStart' = Append(tStart, now)
  /\ pc' = "tsc_start"
  /\ UNCHANGED <<now, skew, config, perf_start, perf_cur, ticks_cur, tsc_start,
                 tsc_cur, perf_freq, deltas, elapsed, iterations, tCur, platform,
                 callvars>>

\* tsc_start = rdtsc(); then the for statement's elapsed = 0
ReadTscStart ==
  /\ pc = "tsc_start"
  /\ tsc_start' = rdtsc(now)
  /\ tStart' = Append(tStart, now)
  /\ elapsed' = Zero
  /\ pc' = "loop_test"
  /\ UNCHANGED <<now, skew, config, perf_start, perf_cur, ticks_start, ticks_cur,
                 tsc_cur, perf_freq, deltas, iterations, tCur, platform, callvars>>

\* mutant: elapsed <= SAMPLE_END
LoopCondition_leq == Leq(elapsed, sample_end)

\* elapsed < SAMPLE_END
LoopCondition == Lt(elapsed, sample_end)

LoopTest ==
  /\ pc = "loop_test"
  /\ IF LoopCondition
     THEN pc' = "perf_cur"
     ELSE pc' = "pb_kill"
  /\ UNCHANGED <<now, skew, config, readings, deltas, elapsed, iterations,
                 instants, platform, callvars>>

ReadPerfCur ==
  /\ pc = "perf_cur"
  /\ perf_cur' = KeQueryPerformanceCounter(now)
  /\ tCur' = <<now>>
  /\ pc' = "ticks_cur"
  /\ UNCHANGED <<now, skew, config, perf_start, ticks_start, ticks_cur, tsc_start,
                 tsc_cur, perf_freq, deltas, elapsed, iterations, tStart, platform,
                 callvars>>

\* mutant: the current tick count is stored in the baseline variable
ReadTicksCur_into_start ==
  /\ pc = "ticks_cur"
  /\ ticks_start' = KeTickCount(now)
  /\ tCur' = Append(tCur, now)
  /\ pc' = "tsc_cur"
  /\ UNCHANGED <<now, skew, config, perf_start, perf_cur, ticks_cur, tsc_start,
                 tsc_cur, perf_freq, deltas, elapsed, iterations, tStart, platform,
                 callvars>>

ReadTicksCur ==
  /\ pc = "ticks_cur"
  /\ ticks_cur' = KeTickCount(now)
  /\ tCur' = Append(tCur, now)
  /\ pc' = "tsc_cur"
  /\ UNCHANGED <<now, skew, config, perf_start, perf_cur, ticks_start, tsc_start,
                 tsc_cur, perf_freq, deltas, elapsed, iterations, tStart, platform,
                 callvars>>

ReadTscCur ==
  /\ pc = "tsc_cur"
  /\ tsc_cur' = rdtsc(now)
  /\ tCur' = Append(tCur, now)
  /\ pc' = "compute"
  /\ UNCHANGED <<now, skew, config, perf_start, perf_cur, ticks_start, ticks_cur,
                 tsc_start, perf_freq, deltas, elapsed, iterations, tStart,
                 platform, callvars>>

\* mutant: the quotient rounded up
PerfDelta_rounded_up(cur, start, f) ==
  DivMod(Add(Low32(Sub64(cur, start)), Sub(f, N(1))), f)[1]

\* (ULONG)(perf_cur-perf_start) / perf_freq
PerfDelta(cur, start, f) == DivMod(Low32(Sub64(cur, start)), f)[1]

\* mutant: the tick difference scaled like the performance counter's
TicksDelta_scaled(cur, start) == DivMod(Low32(Sub64(cur, start)), perf_freq)[1]

\* ticks_cur - ticks_start, assigned to an unsigned
TicksDelta(cur, start) == Low32(Sub64(cur, start))

\* tsc_cur - tsc_start, the argument of tsc_to_ms
TscRaw(cur, start) == Sub64(cur, start)

\* the three assignments in order; a divide error ends the program where it occurs
ComputeDeltas ==
  /\ pc = "compute"
  /\ IF perf_freq = Zero
     THEN pc' = "fault" /\ UNCHANGED deltas
     ELSE /\ perf_delta' = PerfDelta(perf_cur, perf_start, perf_freq)
          /\ ticks_delta' = TicksDelta(ticks_cur, ticks_start)
          /\ IF tsc_to_ms_fault(TscRaw(tsc_cur, tsc_start))
             THEN pc' = "fault" /\ UNCHANGED tsc_delta
             ELSE /\ tsc_delta' = tsc_to_ms(TscRaw(tsc_cur, tsc_start))
                  /\ pc' = "display"
  /\ UNCHANGED <<now, skew, config, readings, elapsed, iterations, instants,
                 platform, callvars>>

\* debugClearScreen and the three lines
Display ==
  /\ pc = "display"
  /\ screen' = <<perf_delta, ticks_delta, tsc_delta>>
  /\ iterations' = iterations + 1
  /\ pc' = "sleep"
  /\ UNCHANGED <<now, skew, config, readings, deltas, elapsed, instants,
                 pb_status, sleeps, last_sleep, killCalls, reboots, callvars>>

\* mutant: XSleep(SAMPLE_END)
SleepDuration_end == sample_end

\* XSleep(SAMPLE_STEP)
SleepDuration == sample_step

Sleep ==
  /\ pc = "sleep"
  /\ XSleep(SleepDuration)
  /\ pc' = "advance"
  /\ UNCHANGED <<skew, config, readings, deltas, elapsed, iterations, instants,
                 pb_status, screen, killCalls, reboots, callvars>>

\* elapsed += SAMPLE_STEP, on an unsigned
Advance ==
  /\ pc = "advance"
  /\ elapsed' = Add32(elapsed, sample_step)
  /\ pc' = "loop_test"
  /\ UNCHANGED <<now, skew, config, readings, deltas, iterations, instants,
                 platform, callvars>>

\* mutant: the display is not torn down
PbKill_skipped ==
  /\ pc = "pb_kill"
  /\ pc' = "reboot"
  /\ UNCHANGED <<now, skew, config, readings, deltas, elapsed, iterations,
                 instants, platform, callvars>>

PbKill ==
  /\ pc = "pb_kill"
  /\ killCalls' = killCalls + 1
  /\ pc' = "reboot"
  /\ UNCHANGED <<now, skew, config, readings, deltas, elapsed, iterations,
                 instants, pb_status, screen, sleeps, last_sleep, reboots, callvars>>

Reboot ==
  /\ pc = "reboot"
  /\ reboots' = reboots + 1
  /\ pc' = "halted"
  /\ UNCHANGED <<now, skew, config, readings, deltas, elapsed, iterations,
                 instants, pb_status, screen, sleeps, last_sleep, killCalls, callvars>>

\* time passes between the counter reads of one group: after the first read of
\* the baseline (or of an iteration) and before its last
BetweenReads == {"perf_freq", "ticks_start", "tsc_start", "ticks_cur", "tsc_cur"}

TimePasses ==
  /\ pc \in BetweenReads
  /\ skew < MaxSkew
  /\ now' = Add(now, N(1))
  /\ skew' = skew + 1
  /\ UNCHANGED <<pc, config, readings, deltas, elapsed, iterations, instants,
                 platform, callvars>>

Step ==
  \/ PbInit \/ FailSleep \/ FailReboot \/ ShowDebugScreen
  \/ ReadPerfStart \/ QueryPerfFreq \/ ReadTicksStart \/ ReadTscStart
  \/ LoopTest \/ ReadPerfCur \/ ReadTicksCur \/ ReadTscCur
  \/ ComputeDeltas \/ Display \/ Sleep \/ Advance \/ PbKill \/ Reboot

Next == Step \/ TimePasses

Spec == Init /\ [][Next]_vars

\* the positions of main(); "halted" after XReboot, "fault" after a divide error
Positions ==
  { "pb_init", "fail_sleep", "fail_reboot", "show", "perf_start", "perf_freq",
    "ticks_start", "tsc_start", "loop_test", "perf_cur", "ticks_cur", "tsc_cur",
    "compute", "display", "sleep", "advance", "pb_kill", "reboot", "halted",
    "fault" }

\* main() moves on to another position: the steps of Next that change pc are
\* the steps of Step, and one is possible at every position but the last two
Proceeds == pc \notin {"halted", "fault"} /\ pc' \in Positions /\ pc' # pc

\* main() is one sequential flow and XSleep returns: the program always takes
\* its next step
FairSpec == Spec /\ WF_pc(Proceeds)

(***************************************************************************)
(* The sampling loop for other values of the two constants                 *)
(***************************************************************************)
Pow2_30 == <<0, 0, 0, 64>>
Pow2_31 == <<0, 0, 0, 128>>

\* <<SAMPLE_STEP, SAMPLE_END>>: unsigned values, the step positive
Configs ==
  { <<N(SAMPLE_STEP), N(SAMPLE_END)>>,
    <<N(1000), N(5000)>>, <<N(2000), N(5000)>>, <<N(5000), N(1000)>>,
    <<N(1), N(3)>>, <<N(1000), Zero>>,
    <<Pow2_31, Max32>>, <<MulSmall(Pow2_30, 3), Max32>>, <<Max32, Max32>> }

InitParam ==
  /\ pc = "pb_init"
  /\ now \in {N(i) : i \in 0..StartMax}
  /\ \E c \in Configs : sample_step = c[1] /\ sample_end = c[2]
  /\ LocalsUnset /\ NothingDoneYet /\ NoCall

SpecParam == InitParam /\ [][Next]_vars

FairSpecParam == SpecParam /\ WF_pc(Proceeds)

(***************************************************************************)
(* One pass of the delta computation and display (lines 68-77) on readings *)
(* the three counters can return                                           *)
(***************************************************************************)
RawPerfDeltas ==
  { Zero, N(1), N(3374), N(3375), N(3376), N(6750), N(6750000), Max32, Pow2_32,
    Add(Pow2_32, N(3375)), Add(MulSmall(Pow2_32, 2), N(5)) }

\* <<perf_start, perf_cur>>: 64-bit readings
PerfReadings ==
  { <<b, Add(b, d)>> : b \in {Zero, N(5), Max32, MulSmall(Pow2_32, 256)},
                       d \in RawPerfDeltas }
  \cup { <<N(5), Zero>>, <<Zero, Max64>> }

\* <<ticks_start, ticks_cur>>: KeTickCount is a 32-bit counter
TickReadings ==
  { <<Zero, Zero>>, <<N(1200), N(5000)>>, <<N(1200), N(1200)>>, <<Zero, Max32>>,
    <<N(1), Max32>>, <<Max32, Max32>>, <<Max32, N(3)>> }

\* <<tsc_start, tsc_cur>>: 64-bit readings
TscReadings ==
  { <<Zero, Zero>>, <<N(7), MulSmall(N(2000), freq)>>,
    <<N(7), Add(N(6), MulSmall(N(2000), freq))>>,
    <<Zero, Sub(MulSmall(Pow2_32, freq), N(1))>>, <<N(7), MulSmall(Pow2_32, freq)>>,
    <<N(7), Zero>> }

\* perf_freq: the frequency of the console is 3375 per ms
PerfFreqs == { N(3375), N(1000), N(1), Zero }

InitDelta ==
  /\ pc = "compute"
  /\ now = Zero
  /\ sample_step = N(SAMPLE_STEP)
  /\ sample_end = N(SAMPLE_END)
  /\ \E r \in PerfReadings : perf_start = r[1] /\ perf_cur = r[2]
  /\ \E r \in TickReadings : ticks_start = r[1] /\ ticks_cur = r[2]
  /\ \E r \in TscReadings : tsc_start = r[1] /\ tsc_cur = r[2]
  /\ perf_freq \in PerfFreqs
  /\ perf_delta = Zero /\ ticks_delta = Zero /\ tsc_delta = Zero /\ elapsed = Zero
  /\ pb_status = "ok" /\ screen = <<>> /\ iterations = 0 /\ sleeps = 0
  /\ last_sleep = Zero /\ killCalls = 0 /\ reboots = 0
  /\ tStart = <<>> /\ tCur = <<>> /\ skew = 0
  /\ NoCall

NextDelta == ComputeDeltas \/ Display

SpecDelta == InitDelta /\ [][NextDelta]_vars

(***************************************************************************)
(* Calls of divl and of tsc_to_ms on their own                             *)
(***************************************************************************)
\* divl(dividend, divisor, want_rem ? &rem_out : NULL)
DivlCall ==
  /\ pc = "call_divl"
  /\ IF divl_fault(dividend, divisor)
     THEN pc' = "fault" /\ UNCHANGED <<quotient, rem_out>>
     ELSE /\ quotient' = divl_quotient(dividend, divisor)
          /\ IF want_rem
             THEN rem_out' \in UninitializedWords(dividend, divisor)
             ELSE UNCHANGED rem_out
          /\ pc' = "divl_returned"
  /\ UNCHANGED <<now, skew, config, readings, deltas, elapsed, iterations,
                 instants, platform, dividend, divisor, want_rem, cyc, ms>>

Dividends ==
  { Zero, N(1), N(7), N(3374), N(733333), Max32, Pow2_32, Add(Pow2_32, N(1)),
    MulSmall(N(315000), freq), Sub(MulSmall(Pow2_32, freq), N(1)),
    MulSmall(Pow2_32, freq), Add(Mul(Max32, Max32), Sub(Max32, N(1))),
    Mul(Max32, Pow2_32), Max64 }

Divisors == { Zero, N(1), N(2), N(3375), N(733333), Pow2_31, Max32 }

InitDivl ==
  /\ pc = "call_divl"
  /\ dividend \in Dividends
  /\ divisor \in Divisors
  /\ want_rem \in BOOLEAN
  /\ quotient = Zero /\ rem_out = Zero /\ cyc = <<>> /\ ms = <<>>
  /\ now = Zero
  /\ sample_step = N(SAMPLE_STEP)
  /\ sample_end = N(SAMPLE_END)
  /\ LocalsUnset /\ NothingDoneYet

SpecDivl == InitDivl /\ [][DivlCall]_vars

\* ms[k] = tsc_to_ms(cyc[k]), one call per step
TscToMsCall ==
  /\ pc = "call_tsc_to_ms"
  /\ LET tsc == cyc[Len(ms) + 1]
     IN  IF tsc_to_ms_fault(tsc)
         THEN pc' = "fault" /\ UNCHANGED ms
         ELSE /\ ms' = Append(ms, tsc_to_ms(tsc))
              /\ pc' = IF Len(ms) + 1 = Len(cyc) THEN "tsc_returned" ELSE pc
  /\ UNCHANGED <<now, skew, config, readings, deltas, elapsed, iterations,
                 instants, platform, dividend, divisor, want_rem, quotient,
                 rem_out, cyc>>

Cycles ==
  { Zero, N(1), N(733332), N(733333), N(733334), N(1466665), N(1466666),
    Max32, Pow2_32, Add(Pow2_32, N(1)), MulSmall(N(2000), freq),
    MulSmall(N(315000), freq), Sub(MulSmall(Pow2_32, freq), N(733334)),
    Sub(MulSmall(Pow2_32, freq), N(1)), MulSmall(Pow2_32, freq), Max64 }

InitTsc ==
  /\ pc = "call_tsc_to_ms"
  /\ cyc \in Cycles \X Cycles
  /\ ms = <<>>
  /\ dividend = Zero /\ divisor = Zero /\ want_rem = FALSE
  /\ quotient = Zero /\ rem_out = Zero
  /\ now = Zero
  /\ sample_step = N(SAMPLE_STEP)
  /\ sample_end = N(SAMPLE_END)
  /\ LocalsUnset /\ NothingDoneYet

SpecTsc == InitTsc /\ [][TscToMsCall]_vars

(***************************************************************************)
(* Properties                                                              *)
(***************************************************************************)
\* q is the quotient of a by b, truncated: q * b <= a < (q + 1) * b
IsQuotient(q, a, b) == Leq(Mul(q, b), a) /\ Lt(a, Mul(Add(q, N(1)), b))

\* C1: for a dividend D and a divisor V > 0 with D < 2^32 * V, divl called with
\* a non-null remainder pointer returns Q and stores R with Q*V + R = D and R < V
C1_QuotientAndRemainder ==
  (pc = "divl_returned" /\ want_rem /\ divisor # Zero
     /\ Lt(dividend, Mul(Pow2_32, divisor)))
  => /\ Add(Mul(quotient, divisor), rem_out) = dividend
     /\ Lt(rem_out, divisor)

\* the domain of tsc_to_ms where the true quotient fits in 32 bits
InTscDomain(c) == Lt(c, MulSmall(Pow2_32, 733333))

\* C5: for every cycle count c < 2^32 * 733333, tsc_to_ms(c) returns c divided
\* by 733333, truncated; so tsc_to_ms(0) = 0 and tsc_to_ms is non-decreasing
C5_TscToMsTruncatingQuotient ==
  /\ \A k \in 1..Len(ms) :
       /\ InTscDomain(cyc[k])
       /\ IsQuotient(ms[k], cyc[k], N(733333))
       /\ Lt(ms[k], Pow2_32)
       /\ (cyc[k] = Zero => ms[k] = Zero)
  /\ (Len(ms) = 2 /\ Leq(cyc[1], cyc[2])) => Leq(ms[1], ms[2])
  /\ pc = "fault" => ~InTscDomain(cyc[Len(ms) + 1])
  /\ (pc = "call_tsc_to_ms" /\ Len(ms) < Len(cyc) /\ InTscDomain(cyc[Len(ms) + 1]))
       => ~tsc_to_ms_fault(cyc[Len(ms) + 1])

\* both calls returned, on the largest count of the domain and on a smaller one
C5_Witness ==
  /\ pc = "tsc_returned"
  /\ cyc[1] = Add(Pow2_32, N(1)) /\ ms[1] = N(5856)
  /\ cyc[2] = Sub(MulSmall(Pow2_32, 733333), N(1)) /\ ms[2] = Max32

\* the deltas of this pass have been computed (and, at "sleep", displayed)
Computed == pc \in {"display", "sleep"}

\* C4 as claimed: for any 64-bit readings with current >= baseline the
\* performance-counter delta is (current - baseline) divided by perf_freq, truncated
C4_AnyReadings ==
  (Computed /\ Leq(perf_start, perf_cur))
  => IsQuotient(perf_delta, Sub(perf_cur, perf_start), perf_freq)

\* C4 amended: the delta is ((current - baseline) mod 2^32) divided by perf_freq,
\* truncated; that is (current - baseline) / perf_freq when current - baseline < 2^32
C4_Low32OfDifference ==
  (Computed /\ Leq(perf_start, perf_cur))
  => LET raw == Sub(perf_cur, perf_start)
     IN  /\ IsQuotient(perf_delta, DivMod(raw, Pow2_32)[2], perf_freq)
         /\ Lt(raw, Pow2_32) => IsQuotient(perf_delta, raw, perf_freq)

\* a raw delta of 3374 at 3375 ticks per ms shows 0
C4_Witness ==
  /\ pc = "sleep"
  /\ perf_freq = N(3375)
  /\ perf_start = Max32 /\ perf_cur = Add(Max32, N(3374))
  /\ screen[1] = Zero

\* C6: for tick-counter readings with current >= baseline the tick-counter
\* delta is current - baseline exactly, with no scaling
C6_TickDeltaIsDifference ==
  (Computed /\ Leq(ticks_start, ticks_cur))
  => Add(ticks_start, ticks_delta) = ticks_cur

C6_Witness ==
  /\ pc = "sleep"
  /\ ticks_cur = N(5000) /\ ticks_start = N(1200)
  /\ screen[2] = N(3800)

\* a millisecond count d is within 1 ms of the time span e (in units)
Within1Ms(d, e) ==
  /\ Leq(MulSmall(d, UnitsPerMs), Add(e, N(UnitsPerMs)))
  /\ Leq(e, Add(MulSmall(d, UnitsPerMs), N(UnitsPerMs)))

BaselinesZero == perf_start = Zero /\ ticks_start = Zero /\ tsc_start = Zero

\* the three current reads of this iteration were made at one instant
SampledAtOneInstant == Len(tCur) = 3 /\ tCur[1] = tCur[2] /\ tCur[2] = tCur[3]

\* C3: with the three baselines at 0 and the sources at their nominal rates, at
\* every sample taken at elapsed time t each of the three displayed deltas is
\* within 1 ms of t; at a whole millisecond t all three equal t
C3_DeltasAgreeAtNominalRates ==
  (pc = "sleep" /\ pb_status = "ok" /\ BaselinesZero /\ SampledAtOneInstant)
  => LET t == tCur[1]
     IN  /\ \A i \in 1..3 : Within1Ms(screen[i], t)
         /\ Leq(t, MulSmall(N(SAMPLE_END), UnitsPerMs))
         /\ DivMod(t, N(UnitsPerMs))[2] = Zero
              => \A i \in 1..3 : MulSmall(screen[i], UnitsPerMs) = t

\* the sample at 2000 ms shows 2000 three times
C3_Witness ==
  /\ pc = "sleep" /\ BaselinesZero /\ SampledAtOneInstant
  /\ tCur[1] = MulSmall(N(2000), UnitsPerMs)
  /\ screen = <<N(2000), N(2000), N(2000)>>

\* C7: when pb_init fails the program sleeps 2000 ms and restarts the device;
\* no baseline is captured, no timer is sampled, nothing is drawn, no iteration
\* runs and pb_kill is never called
C7_InitFailureRestartsOnly ==
  pb_status = "failed"
  => /\ pc \in {"fail_sleep", "fail_reboot", "halted"}
     /\ tStart = <<>> /\ tCur = <<>> /\ LocalsUnset
     /\ screen = <<>> /\ iterations = 0 /\ killCalls = 0
     /\ pc = "fail_sleep" => (sleeps = 0 /\ reboots = 0)
     /\ pc = "fail_reboot" => (sleeps = 1 /\ last_sleep = N(2000) /\ reboots = 0)
     /\ pc = "halted" => (sleeps = 1 /\ last_sleep = N(2000) /\ reboots = 1)

C7_Witness ==
  /\ pb_status = "failed" /\ pc = "halted"
  /\ sleeps = 1 /\ last_sleep = N(2000) /\ reboots = 1

\* both groups of reads are complete
ReadsDone == pc \in {"compute", "display", "sleep"}

\* C9 as claimed: the three baseline readings belong to one common instant and
\* the three current readings to one common instant
C9_CommonInstants ==
  ReadsDone
  => /\ tStart[1] = tStart[2] /\ tStart[2] = tStart[3]
     /\ tCur[1] = tCur[2] /\ tCur[2] = tCur[3]

\* C9 amended: each source is read once for the baseline and once per iteration,
\* in the order performance counter, tick counter, time stamp counter, at
\* instants that do not decrease but need not coincide; each delta is within
\* 1 ms of the time between its own source's two reads
C9_OwnInstantsInOrder ==
  ReadsDone
  => /\ Len(tStart) = 3 /\ Len(tCur) = 3
     /\ Leq(tStart[1], tStart[2]) /\ Leq(tStart[2], tStart[3])
     /\ Leq(tStart[3], tCur[1])
     /\ Leq(tCur[1], tCur[2]) /\ Leq(tCur[2], tCur[3])
     /\ pc = "compute"
          => /\ perf_start = KeQueryPerformanceCounter(tStart[1])
             /\ ticks_start = KeTickCount(tStart[2])
             /\ tsc_start = rdtsc(tStart[3])
             /\ perf_cur = KeQueryPerformanceCounter(tCur[1])
             /\ ticks_cur = KeTickCount(tCur[2])
             /\ tsc_cur = rdtsc(tCur[3])
     /\ pc = "sleep" => \A i \in 1..3 : Within1Ms(screen[i], Sub(tCur[i], tStart[i]))

\* time passed between the baseline reads and the screen shows a disagreement
C9_Witness ==
  /\ pc = "sleep"
  /\ tStart[2] # tStart[3]
  /\ SampledAtOneInstant
  /\ screen[2] # screen[3]

\* C10: through the run with the built-in constants and counters at their
\* nominal rates the raw performance-counter delta stays below 2^32 and the
\* time-stamp-counter delta below 2^32 * 733333, and no division faults
C10_DeltasStayInRange ==
  /\ pc # "fault"
  /\ iterations <= SAMPLE_END \div SAMPLE_STEP
  /\ sleeps <= SAMPLE_END \div SAMPLE_STEP
  /\ ReadsDone
       => /\ Leq(perf_start, perf_cur) /\ Leq(tsc_start, tsc_cur)
          /\ Lt(Sub64(perf_cur, perf_start), Pow2_32)
          /\ Lt(Sub64(tsc_cur, tsc_start), MulSmall(Pow2_32, 733333))
          /\ ~tsc_to_ms_fault(Sub64(tsc_cur, tsc_start))

\* the last sample of the run, 314 sleeps after the first
C10_Witness ==
  /\ pc = "display" /\ iterations = 314 /\ sleeps = 314
  /\ Leq(MulSmall(N(314000), 3375), Sub64(perf_cur, perf_start))
  /\ Leq(MulSmall(N(314000), 733333), Sub64(tsc_cur, tsc_start))

\* the number of iterations of the run with the built-in constants
BuiltInIterations == SAMPLE_END \div SAMPLE_STEP

\* C8: after a successful pb_init every run reaches the end of main(), where
\* pb_kill is called exactly once and then XReboot; neither happens before the
\* last iteration's sleep has returned, whatever the counters showed
C8_FinishTearsDownOnceThenRestarts ==
  /\ (pb_status = "ok") ~> (pc = "halted" /\ killCalls = 1 /\ reboots = 1)
  /\ [](pb_status = "ok" =>
          /\ killCalls <= 1 /\ reboots <= killCalls
          /\ pc \in {"pb_kill", "reboot", "halted"}
               => /\ ~LoopCondition
                  /\ iterations = BuiltInIterations
                  /\ sleeps = BuiltInIterations
          /\ pc = "pb_kill" => (killCalls = 0 /\ reboots = 0)
          /\ pc = "reboot" => (killCalls = 1 /\ reboots = 0)
          /\ pc = "halted" => (killCalls = 1 /\ reboots = 1)
          /\ pc \notin {"pb_kill", "reboot", "halted"}
               => (killCalls = 0 /\ reboots = 0))

C8_Witness ==
  /\ pb_status = "ok" /\ pc = "halted"
  /\ iterations = 315 /\ sleeps = 315 /\ killCalls = 1 /\ reboots = 1

\* ceil(sample_end / sample_step)
CeilIterations == DivMod(Add(sample_end, Sub(sample_step, N(1))), sample_step)[1]

\* the loop is at the top of, or inside, the body of iteration number `iterations`
BeforeDisplay == {"perf_cur", "ticks_cur", "tsc_cur", "compute", "display"}
AfterDisplay == {"sleep", "advance"}
AfterLoop == {"pb_kill", "reboot", "halted"}

\* the loop counter and the number of displayed iterations are those of a loop
\* that runs ceil(T/S) times with the counter at 0, S, 2S, ... and then ends
LoopRunsCeilTimes ==
  /\ pc # "fault"
  /\ Leq(N(iterations), CeilIterations)
  /\ pc \in BeforeDisplay
       => (elapsed = MulSmall(sample_step, iterations) /\ Lt(elapsed, sample_end))
  /\ pc \in AfterDisplay
       => (elapsed = MulSmall(sample_step, iterations - 1) /\ Lt(elapsed, sample_end))
  /\ pc \in AfterLoop => N(iterations) = CeilIterations

\* C2 as claimed: after a successful pb_init the loop with step S > 0 and total
\* duration T runs exactly ceil(T/S) displayed iterations, the counter taking
\* the values 0, S, 2S, ... (all < T) in order, and then terminates
C2_AnyStepAndDuration ==
  pb_status = "ok" => LoopRunsCeilTimes

\* the unsigned counter reaches ceil(T/S) * S without wrapping
CounterDoesNotWrap == Lt(Mul(CeilIterations, sample_step), Pow2_32)

\* C2 amended: the same, for the S and T with ceil(T/S) * S < 2^32, which
\* include S = 1000, T = 5000 (5 iterations) and the built-in constants (315)
C2_WithoutCounterWrap ==
  /\ []((pb_status = "ok" /\ CounterDoesNotWrap) => LoopRunsCeilTimes)
  /\ (pb_status = "ok" /\ CounterDoesNotWrap)
       ~> (pc \in AfterLoop /\ N(iterations) = CeilIterations)

C2_Witness ==
  /\ pb_status = "ok" /\ pc = "pb_kill"
  /\ sample_step = N(1000) /\ sample_end = N(5000)
  /\ iterations = 5 /\ elapsed = N(5000)
====
